---- MODULE Spec2Model ----
(***************************************************************************)
(* Rideau Canal dashboard: the Express backend (server.js: /api/latest and *)
(* /api/history over a Cosmos DB container) and the browser dashboard      *)
(* (public/app.js: status cards and Chart.js history charts refreshed by a *)
(* 30 s timer).                                                            *)
(*                                                                         *)
(* Time is counted in hours.  A JSON document is a record whose DOMAIN is  *)
(* the set of fields it has, so a missing field is a field not in DOMAIN.  *)
(* A string that the code parses or collates is a sequence of characters.  *)
(***************************************************************************)
EXTENDS Integers, Sequences, FiniteSets, TLC

VARIABLES
    \* ---- backend (server.js) ----
    store,      \* the container's documents, in the store's physical order
    req,        \* the request being answered
    resources,  \* what container.items.query(querySpec).fetchAll() returned
    res,        \* what the handler did with the request
    \* ---- dashboard (public/app.js) ----
    tick,           \* refresh cycles started (0 before DOMContentLoaded)
    inbox,          \* the responses /api/latest may give to the dashboard
    latestPending,  \* cycles whose /api/latest fetch is in flight
    cardsContainer, \* the children of #cards-container
    lastUpdated,    \* the cycle that wrote #last-updated (0: never written)
    latestDone,     \* the fetchAndRenderLatest runs that completed, in order
    histPending,    \* per canvas, cycles whose /api/history fetch is in flight
    charts,         \* the charts registry
    live,           \* Chart instances constructed and not destroyed
    built,          \* per canvas, how many Chart instances were constructed
    canvasPx,       \* per canvas, the cycle whose chart is drawn (0: blank)
    console,        \* the last console.error message
    lastHistory     \* the branch the last completed renderHistoryForLocation took

serverVars == <<store, req, resources, res>>
latestVars == <<latestPending, cardsContainer, lastUpdated, latestDone>>
historyVars == <<histPending, charts, live, built, canvasPx, lastHistory>>
clientVars == <<tick, inbox, latestVars, historyVars, console>>
vars == <<serverVars, clientVars>>

Min(a, b) == IF a <= b THEN a ELSE b

(***************************************************************************)
(* Bounds of the model.                                                    *)
(***************************************************************************)
MaxRuns == 2        \* runs of equal documents in the store
MaxTicks == 2       \* refresh cycles of the dashboard
MaxDocs == 4        \* documents in a response whose cards are sorted
Clock == 8          \* Date.now() when a request arrives, in hours

(***************************************************************************)
(* Strings of the data, as sequences of characters.                        *)
(***************************************************************************)
DowsLake == <<"D", "o", "w", "s", " ", "L", "a", "k", "e">>
FifthAvenue == <<"F", "i", "f", "t", "h", " ", "A", "v", "e", "n", "u", "e">>
NAC == <<"N", "A", "C">>
nac == <<"n", "a", "c">>
Unknown == <<"U", "n", "k", "n", "o", "w", "n">>
Zebra == <<"Z", "e", "b", "r", "a">>
Alpha == <<"A", "l", "p", "h", "a">>
InfinityChars == <<"I", "n", "f", "i", "n", "i", "t", "y">>

(***************************************************************************)
(* JavaScript values: undefined, null, a boolean, a number or a string.    *)
(* A finite number is a count of hundredths (v = 100 * the number), which  *)
(* is the precision the model needs for toFixed(1).                        *)
(***************************************************************************)
Undefined == [t |-> "undefined", s |-> <<>>, v |-> 0]
Null == [t |-> "null", s |-> <<>>, v |-> 0]
Bool(b) == [t |-> "boolean", s |-> <<>>, v |-> IF b THEN 100 ELSE 0]
Str(chars) == [t |-> "string", s |-> chars, v |-> 0]
Num(hundredths) == [t |-> "num", s |-> <<>>, v |-> hundredths]
NaN == [t |-> "nan", s |-> <<>>, v |-> 0]
PosInf == [t |-> "inf", s |-> <<>>, v |-> 1]
NegInf == [t |-> "inf", s |-> <<>>, v |-> -1]

Digits == <<"0", "1", "2", "3", "4", "5", "6", "7", "8", "9">>
IsDigit(c) == \E i \in 1..10 : Digits[i] = c
DigitVal(c) == (CHOOSE i \in 1..10 : Digits[i] = c) - 1

RECURSIVE DigitsVal(_)
DigitsVal(cs) ==
    IF cs = <<>> THEN 0
    ELSE 10 * DigitsVal(SubSeq(cs, 1, Len(cs) - 1)) + DigitVal(cs[Len(cs)])

\* StringToNumber of a string without sign: "Infinity", a decimal integer,
\* or not a number.
UnsignedToNumber(cs) ==
    IF cs = InfinityChars THEN PosInf
    ELSE IF cs # <<>> /\ \A i \in 1..Len(cs) : IsDigit(cs[i])
         THEN Num(100 * DigitsVal(cs))
    ELSE NaN

Negate(x) == IF x.t = "nan" THEN NaN ELSE [x EXCEPT !.v = 0 - x.v]

\* Number(value) (ECMAScript ToNumber): undefined is NaN, null is 0, true
\* is 1, the empty string is 0, a signed decimal integer is its value,
\* "Infinity" with an optional sign is infinite, any other string is NaN.
ToNumber(value) ==
    IF value.t = "undefined" THEN NaN
    ELSE IF value.t = "null" THEN Num(0)
    ELSE IF value.t = "boolean" THEN Num(value.v)
    ELSE IF value.t # "string" THEN value
    ELSE IF value.s = <<>> THEN Num(0)
    ELSE IF Head(value.s) = "-" THEN Negate(UnsignedToNumber(Tail(value.s)))
    ELSE IF Head(value.s) = "+" THEN UnsignedToNumber(Tail(value.s))
    ELSE UnsignedToNumber(value.s)

\* ToBoolean of a number: 0 and NaN are falsy.
NumTruthy(x) == x.t = "inf" \/ (x.t = "num" /\ x.v # 0)

(***************************************************************************)
(* The store.  A run is n copies of one aggregation document; the store is *)
(* a sequence of runs in its physical order, which is the order in which   *)
(* it returns documents that tie on the ORDER BY key.                      *)
(***************************************************************************)
TOP_N == 100

WindowEnds == {1, 2, 3}

Docs(locations) ==
    {[windowEnd |-> w] : w \in WindowEnds}
    \cup {[location |-> l, windowEnd |-> w] : l \in locations, w \in WindowEnds}

StoresOf(docs, lengths) ==
    UNION {[1..k -> [doc : docs, n : lengths]] : k \in 0..MaxRuns}

\* the stores /api/latest is checked on, and those /api/history is checked on
LatestStores == StoresOf(Docs({<<>>, Unknown, NAC, DowsLake}), {1, 100})
HistoryStores == StoresOf(Docs({<<>>, NAC, nac}), {1, 101})

RECURSIVE Expand(_)
Expand(runs) ==
    IF runs = <<>> THEN <<>>
    ELSE [i \in 1..Head(runs).n |-> Head(runs).doc] \o Expand(Tail(runs))

\* The runs of s with windowEnd in lo..hi, by windowEnd ascending (ties in
\* store order).
RECURSIVE OrderAsc(_, _, _)
OrderAsc(s, lo, hi) ==
    IF lo > hi THEN <<>>
    ELSE SelectSeq(s, LAMBDA r : r.doc.windowEnd = lo) \o OrderAsc(s, lo + 1, hi)

\* The same, by windowEnd descending (ties in store order).
RECURSIVE OrderDesc(_, _, _)
OrderDesc(s, lo, hi) ==
    IF lo > hi THEN <<>>
    ELSE SelectSeq(s, LAMBDA r : r.doc.windowEnd = hi) \o OrderDesc(s, lo, hi - 1)

WindowEndsOf(s) == {s[i].doc.windowEnd : i \in 1..Len(s)}
Least(S) == IF S = {} THEN 1 ELSE CHOOSE x \in S : \A y \in S : x <= y
Greatest(S) == IF S = {} THEN 0 ELSE CHOOSE x \in S : \A y \in S : y <= x

\* SELECT TOP 100 * FROM c ORDER BY c.windowEnd DESC
QueryTop(s) ==
    LET all == Expand(OrderDesc(s, Least(WindowEndsOf(s)), Greatest(WindowEndsOf(s))))
    IN  SubSeq(all, 1, Min(TOP_N, Len(all)))

\* a faulty variant: the boundary document is left out
SinceClauseStrict(windowEnd, since) == 100 * windowEnd > since

\* c.windowEnd >= @since (windowEnd in hours, since in hundredths of an hour)
SinceClause(windowEnd, since) == 100 * windowEnd >= since

\* AND c.location = @location, which is in the query only for a non-empty
\* location; a document without the field does not satisfy it.
LocationClause(doc, location) ==
    location # <<>> => ("location" \in DOMAIN doc /\ doc.location = location)

\* SELECT * FROM c WHERE c.windowEnd >= @since [AND c.location = @location]
\* ORDER BY c.windowEnd ASC
QueryHistory(s, since, location) ==
    LET match(r) == SinceClause(r.doc.windowEnd, since) /\ LocationClause(r.doc, location)
        found == SelectSeq(s, match)
    IN  Expand(OrderAsc(found, Least(WindowEndsOf(found)), Greatest(WindowEndsOf(found))))

(***************************************************************************)
(* /api/latest                                                             *)
(***************************************************************************)
\* doc.location || "Unknown"
LocKey(doc) ==
    IF "location" \in DOMAIN doc /\ doc.location # <<>> THEN doc.location
    ELSE Unknown

\* a faulty variant: every document overwrites its location's entry
KeepLast(latestByLocation, doc) ==
    LET loc == LocKey(doc)
    IN  IF \E j \in 1..Len(latestByLocation) : latestByLocation[j].key = loc
        THEN [j \in 1..Len(latestByLocation) |->
                 IF latestByLocation[j].key = loc
                 THEN [key |-> loc, doc |-> doc] ELSE latestByLocation[j]]
        ELSE Append(latestByLocation, [key |-> loc, doc |-> doc])

\* The body of the for loop over resources: latestByLocation as the sequence
\* of its entries in insertion order (the order of Object.values).
KeepFirst(latestByLocation, doc) ==
    LET loc == LocKey(doc)
    IN  IF \E j \in 1..Len(latestByLocation) : latestByLocation[j].key = loc
        THEN latestByLocation
        ELSE Append(latestByLocation, [key |-> loc, doc |-> doc])

\* The for loop over docs[lo..hi], in order.  The range is halved, and the
\* first half is evaluated before the second is entered, only to keep the
\* evaluation shallow: the documents are visited from lo to hi.
RECURSIVE ForEach(_, _, _, _)
ForEach(docs, lo, hi, latestByLocation) ==
    IF lo > hi THEN latestByLocation
    ELSE IF lo = hi THEN KeepFirst(latestByLocation, docs[lo])
    ELSE LET mid == (lo + hi) \div 2
             firstHalf == ForEach(docs, lo, mid, latestByLocation)
         IN  IF Len(firstHalf) > 0
             THEN ForEach(docs, mid + 1, hi, firstHalf)
             ELSE ForEach(docs, mid + 1, hi, <<>>)

\* The handler's try block: the loop, then Object.values(latestByLocation).
getLatest(docs) ==
    LET latestByLocation == ForEach(docs, 1, Len(docs), <<>>)
    IN  [j \in 1..Len(latestByLocation) |-> latestByLocation[j].doc]

\* A request: its route and req.query, a record of the parameters it has.
NoReq == [route |-> "none", query |-> <<>>]
Request(route, query) == [route |-> route, query |-> query]

\* What became of the request: nothing yet, a res.status(..).json(..), or an
\* exception thrown out of the async handler before any response was sent.
NoRes == [kind |-> "none", status |-> 0, body |-> <<>>, error |-> ""]
JsonArray(body) == [kind |-> "json", status |-> 200, body |-> body, error |-> ""]
JsonError(msg) == [kind |-> "json", status |-> 500, body |-> <<>>, error |-> msg]
Uncaught == [kind |-> "uncaught", status |-> 0, body |-> <<>>, error |-> "RangeError"]

\* The handlers keep no state of their own between requests, so a behaviour
\* answers one request: every answer the server can give is given from an
\* initial state.
\* app.get("/api/latest"): storeUp is whether the store query succeeds.
ApiLatest ==
    \E storeUp \in BOOLEAN :
        /\ req = NoReq
        /\ req' = Request("/api/latest", <<>>)
        /\ resources' = IF storeUp THEN QueryTop(store) ELSE <<>>
        /\ res' = IF storeUp THEN JsonArray(getLatest(resources'))
                  ELSE JsonError("Failed to fetch latest data")
        /\ UNCHANGED <<store, clientVars>>

(***************************************************************************)
(* /api/history                                                            *)
(***************************************************************************)
HoursParams ==
    {<<>>, <<"0">>, <<"5">>, <<"7">>, <<"-", "1">>, <<"a", "b", "c">>, InfinityChars}
LocationParams == {<<>>, NAC}

\* req.query of the requests made: each parameter present or not
HistoryQueries ==
    {<<>>}
    \cup {[location |-> l] : l \in LocationParams}
    \cup {[hours |-> h] : h \in HoursParams}
    \cup {[location |-> l, hours |-> h] : l \in LocationParams, h \in HoursParams}

\* req.query.location || ""
LocationOf(query) == IF "location" \in DOMAIN query THEN query.location ELSE <<>>

\* Number(req.query.hours) || 6
DEFAULT_HOURS == 6
HoursOf(query) ==
    LET n == ToNumber(IF "hours" \in DOMAIN query THEN Str(query.hours) ELSE Undefined)
    IN  IF NumTruthy(n) THEN n ELSE Num(100 * DEFAULT_HOURS)

\* new Date(Date.now() - hours * 60 * 60 * 1000): the time value, NaN
\* (an Invalid Date) when it is not finite
SinceOf(hours) == IF hours.t = "num" THEN Num(100 * Clock - hours.v) ELSE NaN

\* app.get("/api/history"): toISOString() of an Invalid Date throws a
\* RangeError, and that line is outside the try block.
ApiHistory ==
    \E query \in HistoryQueries, storeUp \in BOOLEAN :
        LET location == LocationOf(query)
            since == SinceOf(HoursOf(query))
        IN  /\ req = NoReq
            /\ req' = Request("/api/history", query)
            /\ resources' = IF since.t = "num" /\ storeUp
                            THEN QueryHistory(store, since.v, location)
                            ELSE <<>>
            /\ res' = IF since.t # "num" THEN Uncaught
                      ELSE IF storeUp THEN JsonArray(resources')
                      ELSE JsonError("Failed to fetch history")
            /\ UNCHANGED <<store, clientVars>>

(***************************************************************************)
(* The dashboard: status cards.                                            *)
(***************************************************************************)
LowerCase == <<"a", "b", "c", "d", "e", "f", "g", "h", "i", "j", "k", "l", "m",
               "n", "o", "p", "q", "r", "s", "t", "u", "v", "w", "x", "y", "z">>
UpperCase == <<"A", "B", "C", "D", "E", "F", "G", "H", "I", "J", "K", "L", "M",
               "N", "O", "P", "Q", "R", "S", "T", "U", "V", "W", "X", "Y", "Z">>
IsUpper(c) == \E i \in 1..26 : UpperCase[i] = c
ToLowerChar(c) == IF IsUpper(c) THEN LowerCase[CHOOSE i \in 1..26 : UpperCase[i] = c] ELSE c

\* String.prototype.toLowerCase
ToLowerCase(cs) == [i \in 1..Len(cs) |-> ToLowerChar(cs[i])]

\* The primary collation weight of a character: the space, then the letters
\* without regard to case.
Weight(c) == IF c = " " THEN 0 ELSE CHOOSE i \in 1..26 : LowerCase[i] = ToLowerChar(c)

\* a.localeCompare(b) as -1, 0 or 1: by primary weights, a prefix first;
\* strings equal in that, by case at the first difference, lower case first.
RECURSIVE ComparePrimary(_, _)
ComparePrimary(a, b) ==
    IF a = <<>> /\ b = <<>> THEN 0
    ELSE IF a = <<>> THEN -1
    ELSE IF b = <<>> THEN 1
    ELSE IF Weight(Head(a)) < Weight(Head(b)) THEN -1
    ELSE IF Weight(Head(a)) > Weight(Head(b)) THEN 1
    ELSE ComparePrimary(Tail(a), Tail(b))

RECURSIVE CompareCase(_, _)
CompareCase(a, b) ==
    IF a = <<>> THEN 0
    ELSE IF Head(a) = Head(b) THEN CompareCase(Tail(a), Tail(b))
    ELSE IF IsUpper(Head(b)) THEN -1
    ELSE 1

LocaleCompare(a, b) ==
    IF ComparePrimary(a, b) # 0 THEN ComparePrimary(a, b) ELSE CompareCase(a, b)

\* doc[name], undefined when the document has no such field
Field(doc, name) == IF name \in DOMAIN doc THEN doc[name] ELSE Undefined

\* a.location || ""
SortName(doc) == IF "location" \in DOMAIN doc THEN doc.location ELSE <<>>

preferredOrder == <<DowsLake, FifthAvenue, NAC>>
UNMATCHED_ORDER == 999

\* preferredOrder.indexOf(loc), and 999 in place of -1
OrderOf(loc) ==
    IF \E i \in 1..Len(preferredOrder) : preferredOrder[i] = loc
    THEN (CHOOSE i \in 1..Len(preferredOrder) : preferredOrder[i] = loc) - 1
    ELSE UNMATCHED_ORDER

\* The comparator given to sort: negative when a comes first.
CompareDocs(a, b) ==
    IF OrderOf(SortName(a)) # OrderOf(SortName(b))
    THEN OrderOf(SortName(a)) - OrderOf(SortName(b))
    ELSE LocaleCompare(SortName(a), SortName(b))

\* One insertion of a stable sort: x goes before the first element it
\* precedes, and after every element it ties with.
InsertSorted(sorted, x) ==
    LET before == {i \in 1..Len(sorted) : CompareDocs(x, sorted[i]) < 0}
        at == IF before = {} THEN Len(sorted) + 1
              ELSE CHOOSE i \in before : \A j \in before : i <= j
    IN  SubSeq(sorted, 1, at - 1) \o <<x>> \o SubSeq(sorted, at, Len(sorted))

\* [...data].sort(comparator): Array.prototype.sort is stable.
RECURSIVE SortDocs(_)
SortDocs(data) ==
    IF data = <<>> THEN <<>>
    ELSE InsertSorted(SortDocs(SubSeq(data, 1, Len(data) - 1)), data[Len(data)])

\* Text shown in a card: the dash placeholder, a number with one decimal
\* (v counts tenths), "Infinity" (v is its sign), or a value as it is.
Dash == [t |-> "dash", v |-> 0]
OneDecimal(tenths) == [t |-> "fixed", v |-> tenths]
InfinityText(sign) == [t |-> "infinity", v |-> sign]

\* n.toFixed(1) of a number that is not NaN: the nearest tenth, a tie going
\* away from zero.
ToFixed1(n) ==
    IF n.t = "inf" THEN InfinityText(n.v)
    ELSE IF n.v >= 0 THEN OneDecimal((n.v + 5) \div 10)
    ELSE OneDecimal(0 - ((5 - n.v) \div 10))

numOrDash(value) ==
    LET n == ToNumber(value)
    IN  IF n.t = "nan" THEN Dash ELSE ToFixed1(n)

\* doc.readingCount ?? dash
ReadingCountText(doc) ==
    IF Field(doc, "readingCount").t \in {"undefined", "null"} THEN Dash
    ELSE doc.readingCount

safe == <<"s", "a", "f", "e">>
warning == <<"w", "a", "r", "n", "i", "n", "g">>
caution == <<"c", "a", "u", "t", "i", "o", "n">>
unsafe == <<"u", "n", "s", "a", "f", "e">>
closed == <<"c", "l", "o", "s", "e", "d">>

\* doc.safetyStatus || "Unknown"
StatusLabel(doc) ==
    IF "safetyStatus" \in DOMAIN doc /\ doc.safetyStatus # <<>> THEN doc.safetyStatus
    ELSE Unknown

BadgeClass(doc) ==
    LET safetyStatus == ToLowerCase(StatusLabel(doc))
    IN  IF safetyStatus = safe THEN "status-safe"
        ELSE IF safetyStatus \in {warning, caution} THEN "status-warning"
        ELSE IF safetyStatus \in {unsafe, closed} THEN "status-danger"
        ELSE "status-warning"

\* toLocaleTimeString of windowEnd (hours): hour and minute of the day
PrettyTime(doc) ==
    IF "windowEnd" \in DOMAIN doc
    THEN [t |-> "time", v |-> 60 * (doc.windowEnd % 24)]
    ELSE Dash

\* The article element of one document; "of" is the document it shows.
buildStatusCard(doc) ==
    [tag |-> "article",
     location |-> LocKey(doc),
     time |-> PrettyTime(doc),
     badgeClass |-> BadgeClass(doc),
     label |-> StatusLabel(doc),
     avgIce |-> numOrDash(Field(doc, "avgIceThickness")),
     avgSurface |-> numOrDash(Field(doc, "avgSurfaceTemperature")),
     maxSnow |-> numOrDash(Field(doc, "maxSnowAccumulation")),
     readingCount |-> ReadingCountText(doc),
     of |-> doc]

Placeholder(text) == [tag |-> "p", text |-> text]
ErrorPlaceholder == Placeholder("Error loading data from API.")
NoDataPlaceholder == Placeholder("No data available yet.")

\* console.error("Failed to load latest data:", err) and
\* console.error(`Failed to load history for ${location}:`, err)
NoMessage == [text |-> "", location |-> <<>>]
LatestFailed == [text |-> "Failed to load latest data:", location |-> <<>>]
HistoryFailed(location) == [text |-> "Failed to load history for", location |-> location]

\* What a fetch of /api/latest comes to: fetch() rejects, the status is not
\* ok, res.json() rejects, or the body parses to an array or to another value.
NetworkError == [kind |-> "network-error", isArray |-> FALSE, data |-> <<>>]
HttpError == [kind |-> "http-error", isArray |-> FALSE, data |-> <<>>]
BadJson == [kind |-> "bad-json", isArray |-> FALSE, data |-> <<>>]
NotArray == [kind |-> "json", isArray |-> FALSE, data |-> <<>>]
JsonBody(data) == [kind |-> "json", isArray |-> TRUE, data |-> data]
NoResponse == [kind |-> "none", isArray |-> FALSE, data |-> <<>>]

\* a faulty variant: the container is not emptied first
KeepChildren(children) == children

\* cardsContainer.innerHTML = ""
ClearContainer(children) == <<>>

\* sorted.forEach(doc => cardsContainer.appendChild(buildStatusCard(doc)))
AppendCards(children, sorted) ==
    children \o [i \in 1..Len(sorted) |-> buildStatusCard(sorted[i])]

\* fetchAndRenderLatest from the settling of fetch() on, for the run of
\* cycle t; dom is the part of the page it writes.
RenderLatest(dom, response, t) ==
    IF response.kind # "json"
    THEN [dom EXCEPT !.cardsContainer = <<ErrorPlaceholder>>,
                     !.console = LatestFailed]
    ELSE IF ~response.isArray \/ Len(response.data) = 0
    THEN [dom EXCEPT !.cardsContainer = <<NoDataPlaceholder>>]
    ELSE [dom EXCEPT !.cardsContainer =
                         AppendCards(ClearContainer(@), SortDocs(response.data)),
                     !.lastUpdated = t]

\* a faulty variant: a new cycle aborts the fetches in flight
AbortAndStart(pending, t) == {t}

\* a fetch begins: nothing cancels the ones already in flight
StartFetch(pending, t) == pending \cup {t}

(***************************************************************************)
(* The dashboard: history charts.                                          *)
(***************************************************************************)
Canvases == {"chart-dows", "chart-fifth", "chart-nac"}

canvasIdToKey(id) ==
    IF id = "chart-dows" THEN "dows"
    ELSE IF id = "chart-fifth" THEN "fifth"
    ELSE IF id = "chart-nac" THEN "nac"
    ELSE id

ChartKeys == {"dows", "fifth", "nac"}

\* the location each canvas is fetched for
LocationOfCanvas(id) ==
    IF id = "chart-dows" THEN DowsLake
    ELSE IF id = "chart-fifth" THEN FifthAvenue
    ELSE NAC

\* A Chart instance: its canvas and the cycle whose data it draws.
Chart(canvasId, t) == [canvas |-> canvasId, tick |-> t]
NoChart == [canvas |-> "", tick |-> 0]

\* What a fetch of /api/history comes to: fetch() rejects, the status is not
\* ok, res.json() rejects, or the body parses to a value that is not an
\* array, to an empty array or to an array of documents.
HistoryFailures == {"network-error", "http-error", "bad-json"}
HistoryEmpty == {"not-array", "empty"}
HistoryOutcomes == HistoryFailures \cup HistoryEmpty \cup {"data"}

\* the branch of renderHistoryForLocation an outcome takes
BranchOf(outcome) ==
    IF outcome \in HistoryFailures THEN "failed"
    ELSE IF outcome \in HistoryEmpty THEN "empty"
    ELSE "data"

\* a faulty variant: the previous chart is left alive
KeepPrevious(page, canvasId) == page

\* if (charts[key]) charts[key].destroy(): destroy() also clears the canvas
DestroyPrevious(page, canvasId) ==
    LET old == page.charts[canvasIdToKey(canvasId)]
    IN  IF old = NoChart THEN page
        ELSE [page EXCEPT !.live = @ \ {old},
                          !.canvasPx[old.canvas] = 0]

\* charts[key] = new Chart(ctx, ...)
NewChart(page, canvasId, t) ==
    [page EXCEPT !.charts[canvasIdToKey(canvasId)] = Chart(canvasId, t),
                 !.live = @ \cup {Chart(canvasId, t)},
                 !.built[canvasId] = @ + 1,
                 !.canvasPx[canvasId] = t]

\* ctx.clearRect(0, 0, canvas.width, canvas.height)
ClearRect(page, canvasId) == [page EXCEPT !.canvasPx[canvasId] = 0]

\* a faulty variant: a failed fetch blanks the chart
CatchAndClear(page, canvasId) ==
    [DestroyPrevious(page, canvasId) EXCEPT
        !.charts[canvasIdToKey(canvasId)] = NoChart,
        !.console = HistoryFailed(LocationOfCanvas(canvasId))]

\* catch (err) { console.error(...) }
CatchHistory(page, canvasId) ==
    [page EXCEPT !.console = HistoryFailed(LocationOfCanvas(canvasId))]

\* renderHistoryForLocation from the settling of fetch() on, for the run of
\* cycle t on canvasId.
RenderHistory(page, canvasId, t, outcome) ==
    IF outcome \in HistoryFailures THEN CatchHistory(page, canvasId)
    ELSE IF outcome \in HistoryEmpty THEN ClearRect(page, canvasId)
    ELSE NewChart(DestroyPrevious(page, canvasId), canvasId, t)

(***************************************************************************)
(* The dashboard: actions.                                                 *)
(***************************************************************************)
\* fetchAndRenderLatest(); fetchAndRenderHistory(); up to the first await of
\* each: one fetch of /api/latest and one of /api/history per canvas begin.
StartCycle ==
    /\ tick' = tick + 1
    /\ latestPending' = StartFetch(latestPending, tick')
    /\ histPending' = [c \in Canvases |-> StartFetch(histPending[c], tick')]
    /\ UNCHANGED <<inbox, cardsContainer, lastUpdated, latestDone, charts, live,
                   built, canvasPx, lastHistory, console, serverVars>>

\* document.addEventListener("DOMContentLoaded", ...)
DOMContentLoaded == tick = 0 /\ StartCycle

\* the setInterval callback, every REFRESH_INTERVAL_MS
IntervalTick == tick >= 1 /\ tick < MaxTicks /\ StartCycle

\* The fetch of /api/latest of cycle t settles and its run goes to its end.
LatestSettles ==
    \E t \in latestPending, response \in inbox :
        LET dom == RenderLatest([cardsContainer |-> cardsContainer,
                                 lastUpdated |-> lastUpdated,
                                 console |-> console], response, t)
        IN  /\ latestPending' = latestPending \ {t}
            /\ cardsContainer' = dom.cardsContainer
            /\ lastUpdated' = dom.lastUpdated
            /\ console' = dom.console
            /\ latestDone' = Append(latestDone, [tick |-> t, response |-> response])
            /\ UNCHANGED <<tick, inbox, historyVars, serverVars>>

\* The fetch of /api/history of cycle t for canvasId settles and its run
\* goes to its end.
HistorySettles ==
    \E canvasId \in Canvases, outcome \in HistoryOutcomes :
        \E t \in histPending[canvasId] :
            LET page == RenderHistory([charts |-> charts, live |-> live,
                                       built |-> built,
                                       canvasPx |-> canvasPx,
                                       console |-> console],
                                      canvasId, t, outcome)
            IN  /\ histPending' = [histPending EXCEPT ![canvasId] = @ \ {t}]
                /\ charts' = page.charts
                /\ live' = page.live
                /\ built' = page.built
                /\ canvasPx' = page.canvasPx
                /\ console' = page.console
                /\ lastHistory' = BranchOf(outcome)
                /\ UNCHANGED <<tick, inbox, latestVars, serverVars>>

(***************************************************************************)
(* Initial states and specifications.                                      *)
(***************************************************************************)
InitPage ==
    /\ tick = 0
    /\ latestPending = {}
    /\ cardsContainer = <<>>
    /\ lastUpdated = 0
    /\ latestDone = <<>>
    /\ histPending = [c \in Canvases |-> {}]
    /\ charts = [k \in ChartKeys |-> NoChart]
    /\ live = {}
    /\ built = [c \in Canvases |-> 0]
    /\ canvasPx = [c \in Canvases |-> 0]
    /\ console = NoMessage
    /\ lastHistory = "none"

InitServer(stores) ==
    /\ store \in stores
    /\ req = NoReq
    /\ resources = <<>>
    /\ res = NoRes
    /\ inbox = {}
    /\ InitPage

\* the responses the refresh cycles are checked on
CycleResponses ==
    {NetworkError, HttpError, BadJson, NotArray, JsonBody(<<>>),
     JsonBody(<<[location |-> NAC, windowEnd |-> 3]>>),
     JsonBody(<<[location |-> NAC, windowEnd |-> 4]>>),
     JsonBody(<<[windowEnd |-> 3]>>),
     JsonBody(<<[location |-> Zebra, windowEnd |-> 2],
                [location |-> DowsLake, windowEnd |-> 3]>>),
     JsonBody(<<[location |-> Zebra, windowEnd |-> 3],
                [location |-> DowsLake, windowEnd |-> 4]>>),
     JsonBody(<<[location |-> NAC, windowEnd |-> 3],
                [location |-> FifthAvenue, windowEnd |-> 3],
                [location |-> DowsLake, windowEnd |-> 3]>>)}

\* the arrays whose cards are sorted: up to MaxDocs documents, each without
\* location or with one of five
SortedLocations == {DowsLake, FifthAvenue, NAC, Zebra, Alpha}
SortedDocs == {[windowEnd |-> 3]} \cup {[location |-> l, windowEnd |-> 3] : l \in SortedLocations}
SortedArrays == UNION {[1..k -> SortedDocs] : k \in 1..MaxDocs}

\* the documents whose card is built: each metric missing, null, a number,
\* a boolean or a string
Twelve == <<"1", "2">>
MetricValues == {Null, Num(0), Num(1234), Num(125), Num(-327), Bool(TRUE),
                 Str(<<>>), Str(<<"a", "b", "c">>), Str(Twelve)}
CountValues == {Null, Num(0), Num(4200)}
OptionalFields(names, values) ==
    UNION {[chosen -> values] : chosen \in SUBSET names}
Merge(f, g) == [x \in DOMAIN f \cup DOMAIN g |-> IF x \in DOMAIN f THEN f[x] ELSE g[x]]
CardDocs ==
    {Merge([location |-> NAC],
           Merge(m, c)) :
        m \in OptionalFields({"avgIceThickness", "avgSurfaceTemperature",
                              "maxSnowAccumulation"}, MetricValues),
        c \in OptionalFields({"readingCount"}, CountValues)}

InitClient(inboxes) ==
    /\ store = <<>>
    /\ req = NoReq
    /\ resources = <<>>
    /\ res = NoRes
    /\ inbox \in inboxes
    /\ InitPage

InitLatest == InitServer(LatestStores)
InitHistory == InitServer(HistoryStores)
InitCycles == InitClient({CycleResponses})
InitSort == InitClient({{JsonBody(data)} : data \in SortedArrays})
InitCard == InitClient({{JsonBody(<<doc>>)} : doc \in CardDocs})

NextCards == DOMContentLoaded \/ IntervalTick \/ LatestSettles
NextFirstCards == DOMContentLoaded \/ LatestSettles
NextCharts == DOMContentLoaded \/ IntervalTick \/ HistorySettles

\* the backend answering one request
SpecLatest == InitLatest /\ [][ApiLatest]_vars
SpecHistory == InitHistory /\ [][ApiHistory]_vars
\* the dashboard's refresh cycles: the status cards, and the charts (the
\* two share no state, so each is followed with the other's fetches left
\* in flight)
SpecCards == InitCycles /\ [][NextCards]_vars
SpecCharts == InitCycles /\ [][NextCharts]_vars
\* the status cards of the first cycle, for every array of SortedArrays and
\* for every document of CardDocs
SpecSort == InitSort /\ [][NextFirstCards]_vars
SpecCard == InitCard /\ [][NextFirstCards]_vars

(***************************************************************************)
(* Properties of the backend.                                              *)
(***************************************************************************)
CountIn(seq, d) == Cardinality({i \in 1..Len(seq) : seq[i] = d})

RECURSIVE StoredCount(_, _)
StoredCount(s, d) ==
    IF s = <<>> THEN 0
    ELSE (IF Head(s).doc = d THEN Head(s).n ELSE 0) + StoredCount(Tail(s), d)

StoredDocs(s) == {s[i].doc : i \in 1..Len(s)}
RangeOf(seq) == {seq[i] : i \in 1..Len(seq)}
StoreSize(s) == Len(Expand(s))

\* sample is the TOP_N documents of s with the greatest windowEnd, newest first
IsTopSample(sample, s) ==
    /\ Len(sample) = Min(TOP_N, StoreSize(s))
    /\ \A i \in 1..Len(sample) - 1 : sample[i].windowEnd >= sample[i + 1].windowEnd
    /\ \A d \in StoredDocs(s) \cup RangeOf(sample) :
          /\ CountIn(sample, d) <= StoredCount(s, d)
          /\ CountIn(sample, d) < StoredCount(s, d) =>
                \A i \in 1..Len(sample) : sample[i].windowEnd >= d.windowEnd

\* a document's location key as the claim defines it
KeyInClaim(doc) ==
    IF "location" \notin DOMAIN doc THEN Unknown
    ELSE IF doc.location = <<>> THEN Unknown
    ELSE doc.location

LatestAnswered == req.route = "/api/latest" /\ res.kind = "json" /\ res.status = 200
HistoryAnswered == req.route = "/api/history" /\ res.kind = "json" /\ res.status = 200

\* C1: /api/latest returns at most one document per location key; each one
\* is a document of the queried sample (the 100 documents with the greatest
\* windowEnd) and has the greatest windowEnd of the sample's documents with
\* its key.
C1_LatestNewestInSample ==
    LatestAnswered =>
        /\ IsTopSample(resources, store)
        /\ \A i, j \in 1..Len(res.body) :
              i # j => KeyInClaim(res.body[i]) # KeyInClaim(res.body[j])
        /\ \A i \in 1..Len(res.body) :
              /\ res.body[i] \in RangeOf(resources)
              /\ \A k \in 1..Len(resources) :
                    KeyInClaim(resources[k]) = KeyInClaim(res.body[i])
                        => resources[k].windowEnd <= res.body[i].windowEnd

\* The store holds more than 100 documents, so the sample leaves some out,
\* and a returned document has an older document of its key in the sample.
C1_Witness ==
    /\ LatestAnswered
    /\ StoreSize(store) > TOP_N
    /\ \E i \in 1..Len(res.body), k \in 1..Len(resources) :
          /\ KeyInClaim(resources[k]) = KeyInClaim(res.body[i])
          /\ resources[k].windowEnd < res.body[i].windowEnd

\* body holds exactly the stored documents that end at or after since (in
\* hundredths of an hour) and,
\* for a non-empty location, have exactly that location; oldest first
IsHistoryOf(body, s, since, location) ==
    /\ \A i \in 1..Len(body) - 1 : body[i].windowEnd <= body[i + 1].windowEnd
    /\ \A d \in StoredDocs(s) \cup RangeOf(body) :
          CountIn(body, d) =
              IF /\ 100 * d.windowEnd >= since
                 /\ location # <<>> => ("location" \in DOMAIN d /\ d.location = location)
              THEN StoredCount(s, d)
              ELSE 0

LocationAsked == IF "location" \in DOMAIN req.query THEN req.query.location ELSE <<>>
HoursNumber == ToNumber(IF "hours" \in DOMAIN req.query THEN Str(req.query.hours) ELSE Undefined)

\* C2 as stated: h is the numeric value of hours, and 6 only when hours is
\* absent or not a numeric string.
C2_HoursAsStated ==
    IF "hours" \in DOMAIN req.query /\ req.query.hours # <<>> /\ HoursNumber.t = "num"
    THEN HoursNumber.v
    ELSE 100 * DEFAULT_HOURS

C2_HistoryAsStated ==
    HistoryAnswered =>
        IsHistoryOf(res.body, store, 100 * Clock - C2_HoursAsStated, LocationAsked)

\* C2 (amended): every array /api/history returns holds exactly the stored
\* documents with windowEnd >= now - h and, for a non-empty location, that
\* exact location, oldest first and not truncated, where h is the numeric
\* value of hours, or 6 when hours is absent, empty, not numeric, or zero.
C2_HoursAmended ==
    IF "hours" \in DOMAIN req.query /\ HoursNumber.t = "num" /\ HoursNumber.v # 0
    THEN HoursNumber.v
    ELSE 100 * DEFAULT_HOURS

C2_HistoryAmended ==
    HistoryAnswered =>
        IsHistoryOf(res.body, store, 100 * Clock - C2_HoursAmended, LocationAsked)

\* hours=0 and location=NAC: more than 100 documents come back, all older
\* than now, and a stored document named "nac" in the window is left out.
C2_Witness ==
    /\ HistoryAnswered
    /\ "hours" \in DOMAIN req.query /\ req.query.hours = <<"0">>
    /\ LocationAsked = NAC
    /\ Len(res.body) > TOP_N
    /\ \E d \in StoredDocs(store) :
          "location" \in DOMAIN d /\ d.location = nac
              /\ d.windowEnd >= Clock - DEFAULT_HOURS

\* C5: every request to /api/latest or /api/history ends with one response,
\* HTTP 200 with a JSON array or HTTP 500 with an {error} payload and no
\* partial result; nothing escapes the handler.
C5_AlwaysAnswered ==
    req.route # "none" =>
        /\ res.kind = "json"
        /\ \/ res.status = 200 /\ res.error = ""
           \/ res.status = 500 /\ res.error # "" /\ res.body = <<>>

(***************************************************************************)
(* Properties of the dashboard: status cards.                              *)
(***************************************************************************)
LatestCompleted == latestDone # <<>>
LastRun == latestDone[Len(latestDone)]
PreviousRun == latestDone[Len(latestDone) - 1]
IsCards(response) == response.kind = "json" /\ response.isArray /\ response.data # <<>>
InPreferred(name) == \E i \in 1..Len(preferredOrder) : preferredOrder[i] = name
PreferredIndex(name) == CHOOSE i \in 1..Len(preferredOrder) : preferredOrder[i] = name

\* the cards, in rendered order, follow the preferred list and then the
\* alphabet, when the name of card i is name[i]
OrderedByName(name) ==
    \A i, j \in DOMAIN name :
        i < j =>
            /\ InPreferred(name[j]) =>
                  InPreferred(name[i]) /\ PreferredIndex(name[i]) <= PreferredIndex(name[j])
            /\ ~InPreferred(name[i]) /\ ~InPreferred(name[j]) =>
                  LocaleCompare(name[i], name[j]) <= 0

\* the cards show the documents of data, each document once per occurrence
OneCardPerDocument(cards, data) ==
    /\ Len(cards) = Len(data)
    /\ \A i \in 1..Len(cards) : cards[i] = buildStatusCard(cards[i].of)
    /\ \A d \in RangeOf(data) :
          Cardinality({i \in 1..Len(cards) : cards[i].of = d}) = CountIn(data, d)

\* C6: the cards of a non-empty array are rendered with the documents of
\* the preferred list first, in the order of that list, and every other
\* document after them, those ordered alphabetically by location name; the
\* location name of a document is the one its card shows, "Unknown" for a
\* document without location.
C6_OrderAsStated ==
    LatestCompleted /\ IsCards(LastRun.response) =>
        /\ OneCardPerDocument(cardsContainer, LastRun.response.data)
        /\ OrderedByName([i \in 1..Len(cardsContainer) |-> cardsContainer[i].location])

\* C6, what the code keeps: the same order with the empty string as the name
\* of a document without location, so that its card, titled "Unknown",
\* precedes every other card outside the preferred list.
C6_OrderByLocationOrEmpty ==
    LatestCompleted /\ IsCards(LastRun.response) =>
        /\ OneCardPerDocument(cardsContainer, LastRun.response.data)
        /\ OrderedByName([i \in 1..Len(cardsContainer) |-> SortName(cardsContainer[i].of)])

\* the array NAC, Dows Lake, Zebra, Fifth Avenue is rendered as
\* Dows Lake, Fifth Avenue, NAC, Zebra
C6_Witness ==
    /\ LatestCompleted
    /\ Len(LastRun.response.data) = 4
    /\ [i \in 1..4 |-> SortName(LastRun.response.data[i])] = <<NAC, DowsLake, Zebra, FifthAvenue>>
    /\ [i \in 1..Len(cardsContainer) |-> cardsContainer[i].location]
           = <<DowsLake, FifthAvenue, NAC, Zebra>>

\* a field holds a number: a JSON number
HoldsNumber(doc, name) == Field(doc, name).t = "num"

\* a field is missing or holds a value that is not numeric: null, a
\* boolean, the empty string or a string that is not a numeral
NotNumeric(doc, name) ==
    LET value == Field(doc, name)
    IN  \/ value.t \in {"undefined", "null", "bool"}
        \/ value.t = "str" /\ (value.s = <<>> \/ ToNumber(value).t = "nan")

\* value rounded to one decimal place
Rounded(value) ==
    IF value.v >= 0 THEN OneDecimal((value.v + 5) \div 10)
    ELSE OneDecimal(0 - ((5 - value.v) \div 10))

MetricShown(card, name) ==
    IF name = "avgIceThickness" THEN card.avgIce
    ELSE IF name = "avgSurfaceTemperature" THEN card.avgSurface
    ELSE card.maxSnow

\* C7: a card shows the dash for a metric whose field is missing or holds a
\* value that is not numeric, and the value rounded to one decimal place
\* for a field that holds a number; it shows the dash for readingCount only
\* when that is null or undefined, and 0 when it is zero.
C7_DashUnlessNumber ==
    \A i \in 1..Len(cardsContainer) :
        cardsContainer[i].tag = "article" =>
            LET card == cardsContainer[i] IN
            /\ \A name \in {"avgIceThickness", "avgSurfaceTemperature", "maxSnowAccumulation"} :
                  /\ HoldsNumber(card.of, name) =>
                        MetricShown(card, name) = Rounded(card.of[name])
                  /\ NotNumeric(card.of, name) => MetricShown(card, name) = Dash
            /\ card.readingCount = Dash <=>
                  Field(card.of, "readingCount").t \in {"undefined", "null"}
            /\ Field(card.of, "readingCount") = Num(0) => card.readingCount = Num(0)

\* C7, the part the code keeps: numbers are rounded to one decimal place,
\* a missing field and a string that is not numeric show the dash, and
\* readingCount shows the dash only when it is null or undefined.
C7_NumbersAndMissing ==
    \A i \in 1..Len(cardsContainer) :
        cardsContainer[i].tag = "article" =>
            LET card == cardsContainer[i] IN
            /\ \A name \in {"avgIceThickness", "avgSurfaceTemperature", "maxSnowAccumulation"} :
                  /\ HoldsNumber(card.of, name) =>
                        MetricShown(card, name) = Rounded(card.of[name])
                  /\ Field(card.of, name) \in {Undefined, Str(<<"a", "b", "c">>)} =>
                        MetricShown(card, name) = Dash
            /\ card.readingCount = Dash <=>
                  Field(card.of, "readingCount").t \in {"undefined", "null"}

\* C8: when a run of fetchAndRenderLatest has completed, the container
\* holds the error placeholder alone if the fetch failed (no response, a
\* status that is not ok, a body that cannot be read), the "no data"
\* placeholder alone if the body is an empty array or not an array, and
\* otherwise one card per returned document and nothing else; and the "last
\* updated" display changes only in a run of the third kind.
C8_Contents ==
    LatestCompleted =>
        IF LastRun.response.kind # "json" THEN cardsContainer = <<ErrorPlaceholder>>
        ELSE IF ~IsCards(LastRun.response) THEN cardsContainer = <<NoDataPlaceholder>>
        ELSE OneCardPerDocument(cardsContainer, LastRun.response.data)

C8_LastUpdated ==
    lastUpdated' # lastUpdated =>
        /\ Len(latestDone') = Len(latestDone) + 1
        /\ IsCards(latestDone'[Len(latestDone')].response)

Dom == [cardsContainer |-> cardsContainer, lastUpdated |-> lastUpdated, console |-> console]
DomNext == [cardsContainer |-> cardsContainer', lastUpdated |-> lastUpdated', console |-> console']

\* C10: a fetch in flight is never cancelled or dropped: it stops being
\* pending only in a step of its own, not a timer step, in which its run
\* renders its response; so the response of an older cycle can be rendered
\* after that of a newer one.
C10_Step ==
    /\ \A t \in latestPending \ latestPending' :
          /\ tick' = tick
          /\ \E response \in inbox : DomNext = RenderLatest(Dom, response, t)
    /\ \A c \in Canvases : \A t \in histPending[c] \ histPending'[c] : tick' = tick

C10_NeverCancelled == [][C10_Step]_vars

\* the cards of an older cycle are shown although the cards of a newer
\* cycle, other ones, were rendered before them
C10_Witness ==
    /\ Len(latestDone) >= 2
    /\ LastRun.tick < PreviousRun.tick
    /\ IsCards(PreviousRun.response)
    /\ IsCards(LastRun.response)
    /\ PreviousRun.response # LastRun.response
    /\ OneCardPerDocument(cardsContainer, LastRun.response.data)
    /\ lastUpdated = LastRun.tick

(***************************************************************************)
(* Properties of the dashboard: history charts.                            *)
(***************************************************************************)
LiveOn(canvasId) == {chart \in live : chart.canvas = canvasId}
LiveOnNext(canvasId) == {chart \in live' : chart.canvas = canvasId}
Registry(canvasId) == charts[canvasIdToKey(canvasId)]
RegistryNext(canvasId) == charts'[canvasIdToKey(canvasId)]

\* a run of renderHistoryForLocation on canvasId completes in this step
Completes(canvasId) == tick' = tick /\ histPending'[canvasId] # histPending[canvasId]

\* C3: each canvas has at most one chart constructed and not destroyed, and
\* that one is the chart of its registry entry; the step that constructs a
\* chart leaves the previous chart of the canvas destroyed.
C3_AtMostOne ==
    \A c \in Canvases :
        /\ Cardinality(LiveOn(c)) <= 1
        /\ LiveOn(c) = IF Registry(c) = NoChart THEN {} ELSE {Registry(c)}

C3_Replaces ==
    \A c \in Canvases :
        built'[c] # built[c] =>
            /\ Registry(c) # NoChart => Registry(c) \notin live' \/ Registry(c) = RegistryNext(c)
            /\ LiveOnNext(c) = {RegistryNext(c)}

C3_OneChartPerCanvas == [](C3_AtMostOne) /\ [][C3_Replaces]_vars

\* two fetches for one location have each constructed a chart, and one
\* chart is live on the canvas
C3_Witness ==
    \E c \in Canvases :
        /\ built[c] >= 2
        /\ LiveOn(c) = {Registry(c)}
        /\ canvasPx[c] = Registry(c).tick

\* C4: a failed history fetch for a canvas changes no registry entry, no
\* chart instance and no canvas: it only logs the failure.
C4_Step ==
    \A c \in Canvases :
        Completes(c) /\ lastHistory' = "failed" =>
            /\ charts' = charts
            /\ live' = live
            /\ built' = built
            /\ canvasPx' = canvasPx
            /\ console' = HistoryFailed(LocationOfCanvas(c))

C4_FailureLeavesChart == [][C4_Step]_vars

\* the last fetch to complete has failed, for a canvas whose chart is still
\* registered, live and drawn
C4_Witness ==
    \E c \in Canvases :
        /\ lastHistory = "failed"
        /\ console = HistoryFailed(LocationOfCanvas(c))
        /\ Registry(c) # NoChart
        /\ Registry(c) \in live
        /\ canvasPx[c] = Registry(c).tick

\* C9: once a canvas has a chart, every later fetch for it that succeeds,
\* with data or with an empty array, destroys that chart: the chart is no
\* longer live and no longer in the registry.
C9_Step ==
    \A c \in Canvases :
        Completes(c) /\ lastHistory' \in {"empty", "data"} /\ Registry(c) # NoChart =>
            /\ Registry(c) \notin live'
            /\ RegistryNext(c) # Registry(c)

C9_SuccessDestroys == [][C9_Step]_vars

\* C9, what the code keeps: a fetch that succeeds with data destroys the
\* chart of the canvas and registers a new one.
C9_DataStep ==
    \A c \in Canvases :
        Completes(c) /\ lastHistory' = "data" /\ Registry(c) # NoChart =>
            /\ Registry(c) \notin live'
            /\ RegistryNext(c) # Registry(c)

C9_DataDestroys == [][C9_DataStep]_vars
====
